---------------------------- MODULE Spec2Model ----------------------------
(***************************************************************************)
(* InsideX frontend: the data table, the pagination control, the typed API *)
(* client and the dashboard page controller, as state machines.            *)
(*                                                                         *)
(* Each component has its own specification (SpecTable, SpecPagination,    *)
(* SpecApi, SpecDashboard); a component that a specification does not      *)
(* exercise stays in its idle start state.                                 *)
(*                                                                         *)
(* Conventions: an optional value (an emitted event, a rejection value, a  *)
(* response payload) is a sequence of length 0 or 1; a JavaScript          *)
(* `undefined` prop is the string "undefined".                             *)
(***************************************************************************)
EXTENDS Integers, Sequences, FiniteSets, TLC

VARIABLES
    \* Table (props and React state)
    tSortable,      \* prop `sortable`
    tColumns,       \* prop `columns`: the column descriptors, left to right
    tData,          \* prop `data`: the rows, in the caller's order
    tLoading,       \* prop `loading`
    tView,          \* what the last render produced
    sortColumn,     \* useState<string>('')
    sortDirection,  \* useState<SortDirection>('asc')
    tClicks,        \* history: one record per header click
    \* Pagination (props, rendered output, click history)
    currentPage, totalPages, totalItems, itemsPerPage,
    pgView,         \* what the last render produced
    pgClick,        \* history: the last button click (length 0 or 1)
    pgStart,        \* history: the currentPage the caller started with
    fmtLog,         \* history: the formatter calls made and what they returned
    errLog,         \* history: the handleAPIError calls made and their results
    sSignals,       \* Signals page: state `signals`
    sLoading,       \* Signals page: state `loading`
    sError,         \* Signals page: state `error` (length 0 is null)
    sWindowDays,    \* Signals page: state `windowDays`
    sReqs,          \* Signals page: the getTopSignals calls made, in order
    sPc,            \* Signals page: "mounted", "running" or "closed"
    \* API client
    apiCalls,       \* one record per call of an API function
    netLog,         \* the HTTP requests sent, in order
    \* Dashboard page (React state and the position of loadDashboardData)
    dSignals, dStats, dDashboardStats, dLoading, dError,
    dPc,            \* "mounted" | "awaiting" | "done"
    dReq            \* the promises of the three batched calls

tableVars == <<tSortable, tColumns, tData, tLoading, tView,
               sortColumn, sortDirection, tClicks>>
pgVars    == <<currentPage, totalPages, totalItems, itemsPerPage, pgView,
               pgClick, pgStart>>
apiVars   == <<apiCalls, netLog>>
dashVars  == <<dSignals, dStats, dDashboardStats, dLoading, dError, dPc, dReq>>
fmtVars   == <<fmtLog>>
errVars   == <<errLog>>
sigVars   == <<sSignals, sLoading, sError, sWindowDays, sReqs, sPc>>
vars      == <<tableVars, pgVars, apiVars, dashVars, fmtVars, errVars, sigVars>>

Min(a, b) == IF a <= b THEN a ELSE b

-----------------------------------------------------------------------------
(* Table                                                                    *)

\* Bound on the length of the click history.
MaxClicks == 3

\* Column keys; the empty string is a legal `key: string`.
Keys == {"", "A", "B"}
SortableFlags == {"true", "false", "undefined"}
Directions == {"asc", "desc"}

\* `!sortable || !column.sortable` negated: the guard of handleSort.
SortEnabledNoGuard(ts, cs) == TRUE
SortEnabled(ts, cs) == ts /\ cs = "true"

\* `sortColumn === column.key && sortDirection === 'asc' ? 'desc' : 'asc'`
NewDirection(sc, sd, key) == IF sc = key /\ sd = "asc" THEN "desc" ELSE "asc"

\* A column descriptor (label and format are not modelled).
Col(k, f) == [key |-> k, sortable |-> f]

\* The column lists the Table is rendered with: keys are pairwise distinct,
\* every key occurs with every value of its sortable flag, in more than one
\* order and number.
ColumnLists ==
    { <<>>,
      <<Col("A", "true")>>,
      <<Col("B", "true"), Col("A", "true")>>,
      <<Col("", "true"), Col("A", "true"), Col("B", "true")>>,
      <<Col("", "false"), Col("A", "true"), Col("B", "undefined")>>,
      <<Col("", "undefined"), Col("A", "false"), Col("B", "true")>>,
      <<Col("", "true"), Col("A", "undefined"), Col("B", "false")>> }

\* Rows are opaque objects, here numbered; the data the caller passes.
DataSets == {<<>>, <<1, 2>>, <<2, 1>>}

\* {[...Array(5)].map(...)} of the loading branch
SkeletonRows == 5

\* The classes of the two arrows of a header: not rendered unless both
\* sortable flags are true, and dark only for the active column's direction.
Arrow(ts, col, sc, sd, dir) ==
    IF ~(ts /\ col.sortable = "true") THEN "none"
    ELSE IF sc = col.key /\ sd = dir THEN "text-gray-900"
    ELSE "text-gray-400"

\* <thead>: one <th> per column, in the order of `columns`.
TableHead(columns, ts, sc, sd) ==
    [i \in 1..Len(columns) |->
        [key  |-> columns[i].key,
         up   |-> Arrow(ts, columns[i], sc, sd, "asc"),
         down |-> Arrow(ts, columns[i], sc, sd, "desc")]]

\* data.map((row, rowIndex) => <tr> {columns.map((column) => <td>)} </tr>)
TableRow(columns, row) ==
    [kind |-> "row", row |-> row, colSpan |-> 1,
     cells |-> [c \in 1..Len(columns) |-> <<row, columns[c].key>>]]
TableRowsReversed(columns, data) ==
    [r \in 1..Len(data) |-> TableRow(columns, data[Len(data) + 1 - r])]
TableRows(columns, data) ==
    [r \in 1..Len(data) |-> TableRow(columns, data[r])]

\* <tbody>: the "No data available" row when data is empty, else the rows.
TableBodyNoPlaceholder(columns, data) == TableRows(columns, data)
TableBody(columns, data) ==
    IF Len(data) = 0
    THEN <<[kind |-> "placeholder", row |-> 0, colSpan |-> Len(columns),
            cells |-> <<>>]>>
    ELSE TableRows(columns, data)

\* One render of Table: the skeleton while loading, else the table.
TableRenderEmptyFirst(columns, data, loading, ts, sc, sd) ==
    IF loading /\ Len(data) > 0
    THEN [kind |-> "skeleton", bars |-> 1, placeholders |-> SkeletonRows,
          head |-> <<>>, body |-> <<>>]
    ELSE [kind |-> "table", bars |-> 0, placeholders |-> 0,
          head |-> TableHead(columns, ts, sc, sd),
          body |-> TableBody(columns, data)]
TableRender(columns, data, loading, ts, sc, sd) ==
    IF loading
    THEN [kind |-> "skeleton", bars |-> 1, placeholders |-> SkeletonRows,
          head |-> <<>>, body |-> <<>>]
    ELSE [kind |-> "table", bars |-> 0, placeholders |-> 0,
          head |-> TableHead(columns, ts, sc, sd),
          body |-> TableBody(columns, data)]

\* onClick={() => handleSort(column)} on the rendered header of column k.
HandleSort(k) ==
    /\ Len(tClicks) < MaxClicks
    /\ \E h \in 1..Len(tView.head) :
        /\ tView.head[h].key = k
        /\ LET column == tColumns[h]
               en == SortEnabled(tSortable, column.sortable)
               nd == NewDirection(sortColumn, sortDirection, k)
               sc == IF en THEN k ELSE sortColumn
               sd == IF en THEN nd ELSE sortDirection
           IN  /\ sortColumn' = sc
               /\ sortDirection' = sd
               /\ tView' = TableRender(tColumns, tData, tLoading, tSortable,
                                       sc, sd)
               /\ tClicks' = Append(tClicks,
                     [key |-> k,
                      tableSortable |-> tSortable,
                      colSortable |-> column.sortable,
                      pre |-> <<sortColumn, sortDirection>>,
                      post |-> <<sc, sd>>,
                      loading |-> tLoading,
                      rowsKept |-> (tView'.body = tView.body),
                      emitted |-> IF en
                                  THEN <<[column |-> k, direction |-> nd]>>
                                  ELSE <<>>])
    /\ UNCHANGED <<tSortable, tColumns, tData, tLoading>>
    /\ UNCHANGED <<pgVars, apiVars, dashVars, fmtVars, errVars, sigVars>>

\* The parent renders the Table again with the other value of `sortable`;
\* React keeps the component's state.
TableSetSortable ==
    /\ tSortable' = ~tSortable
    /\ tView' = TableRender(tColumns, tData, tLoading, tSortable',
                            sortColumn, sortDirection)
    /\ UNCHANGED <<tColumns, tData, tLoading, sortColumn, sortDirection,
                   tClicks>>
    /\ UNCHANGED <<pgVars, apiVars, dashVars, fmtVars, errVars, sigVars>>

\* The parent renders the Table again with the other value of `loading`.
TableSetLoading ==
    /\ tLoading' = ~tLoading
    /\ tView' = TableRender(tColumns, tData, tLoading', tSortable,
                            sortColumn, sortDirection)
    /\ UNCHANGED <<tSortable, tColumns, tData, sortColumn, sortDirection,
                   tClicks>>
    /\ UNCHANGED <<pgVars, apiVars, dashVars, fmtVars, errVars, sigVars>>

\* The parent renders the Table again with new data.
TableSetData(d) ==
    /\ d # tData
    /\ tData' = d
    /\ tView' = TableRender(tColumns, d, tLoading, tSortable,
                            sortColumn, sortDirection)
    /\ UNCHANGED <<tSortable, tColumns, tLoading, sortColumn, sortDirection,
                   tClicks>>
    /\ UNCHANGED <<pgVars, apiVars, dashVars, fmtVars, errVars, sigVars>>

-----------------------------------------------------------------------------
(* Pagination                                                               *)

\* Bounds on the props.
MaxItems == 10
MaxPerPage == 2

\* The caller's totalPages: ceil(totalItems / itemsPerPage).
CeilDiv(n, d) == (n + d - 1) \div d

\* The page number of button i (0-based), lines 746-750.
PageNumNoClamp(i, cp, tp) ==
    IF tp > 5 /\ cp > 3 THEN cp - 2 + i ELSE i + 1
PageNum(i, cp, tp) ==
    IF tp > 5 /\ cp > 3
    THEN IF cp - 2 + i > tp THEN tp - 4 + i ELSE cp - 2 + i
    ELSE i + 1

\* [...Array(Math.min(totalPages, 5))].map(...)
PageButtonsAll(cp, tp) == [j \in 1..tp |-> PageNum(j - 1, cp, tp)]
PageButtonsFour(cp, tp) == [j \in 1..Min(tp, 4) |-> PageNum(j - 1, cp, tp)]
PageButtons(cp, tp) == [j \in 1..Min(tp, 5) |-> PageNum(j - 1, cp, tp)]

\* disabled={currentPage <= 1} and disabled={currentPage >= totalPages}
PrevDisabledStrict(cp) == cp < 1
PrevDisabled(cp) == cp <= 1
NextDisabled(cp, tp) == cp >= tp

\* One render of Pagination from its props.
PgRenderNoMin(cp, tp, ti, ipp) ==
    [startItem   |-> (cp - 1) * ipp + 1,
     endItem     |-> cp * ipp,
     mobilePrev  |-> PrevDisabled(cp),
     mobileNext  |-> NextDisabled(cp, tp),
     desktopPrev |-> PrevDisabled(cp),
     desktopNext |-> NextDisabled(cp, tp),
     pages       |-> PageButtons(cp, tp)]
PgRender(cp, tp, ti, ipp) ==
    [startItem   |-> (cp - 1) * ipp + 1,
     endItem     |-> Min(cp * ipp, ti),
     mobilePrev  |-> PrevDisabled(cp),
     mobileNext  |-> NextDisabled(cp, tp),
     desktopPrev |-> PrevDisabled(cp),
     desktopNext |-> NextDisabled(cp, tp),
     pages       |-> PageButtons(cp, tp)]

Layouts == {"mobile", "desktop"}

PrevIsDisabled(layout) ==
    IF layout = "mobile" THEN pgView.mobilePrev ELSE pgView.desktopPrev
NextIsDisabled(layout) ==
    IF layout = "mobile" THEN pgView.mobileNext ELSE pgView.desktopNext

\* History record of one click: the button, the props at the time of the
\* click, and the pages passed to onPageChange by it.
PgClickRecord(button, layout, label, emitted) ==
    [button |-> button, layout |-> layout, label |-> label,
     currentPage |-> currentPage, totalPages |-> totalPages,
     emitted |-> emitted]

\* onClick={() => onPageChange(currentPage - 1)}
PrevEmitsSame(cp) == cp
PrevEmits(cp) == cp - 1
\* onClick={() => onPageChange(currentPage + 1)}
NextEmits(cp) == cp + 1

\* A click on Previous; a disabled <button> dispatches no click event.
ClickPrevious(layout) ==
    /\ pgClick' = <<PgClickRecord("prev", layout, 0,
                      IF PrevIsDisabled(layout) THEN <<>>
                      ELSE <<PrevEmits(currentPage)>>)>>
    /\ UNCHANGED <<currentPage, totalPages, totalItems, itemsPerPage, pgView,
                   pgStart>>
    /\ UNCHANGED <<tableVars, apiVars, dashVars, fmtVars, errVars, sigVars>>

ClickNext(layout) ==
    /\ pgClick' = <<PgClickRecord("next", layout, 0,
                      IF NextIsDisabled(layout) THEN <<>>
                      ELSE <<NextEmits(currentPage)>>)>>
    /\ UNCHANGED <<currentPage, totalPages, totalItems, itemsPerPage, pgView,
                   pgStart>>
    /\ UNCHANGED <<tableVars, apiVars, dashVars, fmtVars, errVars, sigVars>>

\* onClick={() => onPageChange(pageNum)} on the j-th numbered button.
ClickPage(j) ==
    /\ j \in DOMAIN pgView.pages
    /\ pgClick' = <<PgClickRecord("page", "desktop", pgView.pages[j],
                      <<pgView.pages[j]>>)>>
    /\ UNCHANGED <<currentPage, totalPages, totalItems, itemsPerPage, pgView,
                   pgStart>>
    /\ UNCHANGED <<tableVars, apiVars, dashVars, fmtVars, errVars, sigVars>>

\* The caller adopts the emitted page as the next currentPage and renders.
AdoptPage ==
    /\ Len(pgClick) = 1
    /\ Len(pgClick[1].emitted) = 1
    /\ pgClick[1].emitted[1] # currentPage
    /\ currentPage' = pgClick[1].emitted[1]
    /\ pgView' = PgRender(currentPage', totalPages, totalItems, itemsPerPage)
    /\ UNCHANGED <<totalPages, totalItems, itemsPerPage, pgClick, pgStart>>
    /\ UNCHANGED <<tableVars, apiVars, dashVars, fmtVars, errVars, sigVars>>

-----------------------------------------------------------------------------
(* API client                                                               *)

\* Bound on the number of API calls in one behaviour.
MaxCalls == 2

\* timeout: 10000 of axios.create
ApiTimeout == 10000

ApiOps == {"healthCheck", "getTrades", "getTradeStats", "getCompany",
           "getCompanies", "getInsider", "getInsiders", "getTopInsiders",
           "getTopSignals", "scoreSignals", "getModelInfo"}

\* Which fields a SignalRequest carries (all of them are optional).
ScoreBodies == {"ticker", "filings", "both", "neither"}
NoBody == "none"
BodiesOf(op) == IF op = "scoreSignals" THEN ScoreBodies ELSE {NoBody}

\* What the transport does with a request: a 2xx response, no response at
\* all (network unreachable, timeout), or a non-2xx response whose body has
\* or lacks a `detail` field.
Outcomes == {"ok", "network", "timeout", "http_detail", "http_plain"}

\* healthCheck goes through the global axios, the others through apiClient.
ClientOf(op) == IF op = "healthCheck" THEN "axios" ELSE "apiClient"

MethodOf(op) == IF op = "scoreSignals" THEN "POST" ELSE "GET"

PathOf(op) ==
    CASE op = "healthCheck"    -> "/../healthz"
      [] op = "getTrades"      -> "/trades"
      [] op = "getTradeStats"  -> "/trades/stats"
      [] op = "getCompany"     -> "/companies/{ticker}"
      [] op = "getCompanies"   -> "/companies"
      [] op = "getInsider"     -> "/insiders/{name}"
      [] op = "getInsiders"    -> "/insiders"
      [] op = "getTopInsiders" -> "/insiders/top"
      [] op = "getTopSignals"  -> "/signals/top"
      [] op = "scoreSignals"   -> "/signals/score"
      [] op = "getModelInfo"   -> "/signals/model-info"

\* The request an API function hands to axios; only the apiClient instance
\* carries the timeout (the global axios default is no timeout).
RequestOf(op, body) ==
    [op |-> op, method |-> MethodOf(op), path |-> PathOf(op), body |-> body,
     client |-> ClientOf(op),
     timeout |-> IF ClientOf(op) = "apiClient" THEN <<ApiTimeout>> ELSE <<>>]

Pending == [state |-> "pending", value |-> <<>>, error |-> <<>>]
Fulfilled(v) == [state |-> "fulfilled", value |-> <<v>>, error |-> <<>>]
Rejected(e) == [state |-> "rejected", value |-> <<>>, error |-> <<e>>]

\* The error axios rejects with.
AxiosError(outcome) ==
    CASE outcome = "network" ->
           [type |-> "AxiosError", message |-> "Network Error",
            status |-> <<>>, data |-> <<>>]
      [] outcome = "timeout" ->
           [type |-> "AxiosError", message |-> "timeout of 10000ms exceeded",
            status |-> <<>>, data |-> <<>>]
      [] outcome = "http_detail" ->
           [type |-> "AxiosError",
            message |-> "Request failed with status code 404",
            status |-> <<404>>, data |-> <<[detail |-> <<"Not found">>]>>]
      [] outcome = "http_plain" ->
           [type |-> "AxiosError",
            message |-> "Request failed with status code 500",
            status |-> <<500>>, data |-> <<[detail |-> <<>>]>>]

\* The promise of the axios request itself.
Transport(outcome, data) ==
    IF outcome = "ok" THEN Fulfilled([status |-> 200, data |-> data])
    ELSE Rejected(AxiosError(outcome))

\* apiClient.interceptors.response.use((response) => response,
\*   (error) => { console.error(...); return Promise.reject(error); })
ResponseInterceptorSwallows(p) ==
    IF p.state = "rejected" THEN Fulfilled([status |-> 0, data |-> "none"])
    ELSE p
ResponseInterceptor(p) ==
    IF p.state = "rejected" THEN Rejected(p.error[1]) ELSE p

\* class APIError and handleAPIError
APIError(message, status, data) ==
    [type |-> "APIError", message |-> message, status |-> status,
     data |-> data]

\* `a || b` picks b when a is undefined or the empty string.
Truthy(field) == field # <<>> /\ field[1] # ""

HandleAPIErrorAnyDetail(error) ==
    IF error.type = "AxiosError"
    THEN APIError(IF error.data # <<>> /\ error.data[1].detail # <<>>
                    THEN error.data[1].detail[1] ELSE error.message,
                  error.status, error.data)
    ELSE APIError(error.message, <<>>, <<>>)
HandleAPIError(error) ==
    IF error.type = "AxiosError"
    THEN APIError(IF error.data # <<>> /\ Truthy(error.data[1].detail)
                    THEN error.data[1].detail[1] ELSE error.message,
                  error.status, error.data)
    ELSE APIError(error.message, <<>>, <<>>)

\* Bound on the number of handleAPIError calls in one behaviour.
MaxHandled == 3

\* The values a catch clause can hand to handleAPIError: the axios errors of
\* the transport, an axios error whose response body has an empty detail or
\* no body at all, and errors that are not axios errors.
ErrorInputs ==
    {AxiosError(o) : o \in Outcomes \ {"ok"}}
    \cup
    {[type |-> "AxiosError", message |-> "Request failed with status code 400",
      status |-> <<400>>, data |-> <<[detail |-> <<"">>]>>],
     [type |-> "AxiosError", message |-> "Request failed with status code 502",
      status |-> <<502>>, data |-> <<>>],
     [type |-> "TypeError", message |-> "response is undefined",
      status |-> <<>>, data |-> <<>>],
     [type |-> "Error", message |-> "boom",
      status |-> <<418>>, data |-> <<[detail |-> <<"teapot">>]>>]}

\* A caller applies handleAPIError to a caught value.
CallHandleAPIError(e) ==
    /\ Len(errLog) < MaxHandled
    /\ errLog' = Append(errLog, [error |-> e, result |-> HandleAPIError(e)])
    /\ UNCHANGED <<tableVars, pgVars, apiVars, dashVars, fmtVars, sigVars>>

\* `const response = await <client>.get/post(...); return response.data;`
\* the promise an API function returns once its request has settled.
OpSettle(op, outcome, data) ==
    LET t == Transport(outcome, data)
        r == IF ClientOf(op) = "apiClient" THEN ResponseInterceptor(t) ELSE t
    IN  IF r.state = "fulfilled" THEN Fulfilled(r.value[1].data) ELSE r

\* The synchronous part of an API function: the requests it sends and the
\* promise it returns.  No function inspects its arguments first.
ApiStartValidating(op, body) ==
    IF op = "scoreSignals" /\ body = "neither"
    THEN [requests |-> <<>>,
          promise |-> Rejected([type |-> "ValidationError",
                                message |-> "ticker or filings required",
                                status |-> <<>>, data |-> <<>>])]
    ELSE [requests |-> <<RequestOf(op, body)>>, promise |-> Pending]
ApiStartCached(op, body) ==
    IF \E i \in 1..Len(apiCalls) :
          apiCalls[i].op = op /\ apiCalls[i].body = body
    THEN [requests |-> <<>>, promise |-> Fulfilled("data")]
    ELSE [requests |-> <<RequestOf(op, body)>>, promise |-> Pending]
ApiStart(op, body) ==
    [requests |-> <<RequestOf(op, body)>>, promise |-> Pending]

\* A caller invokes one of the API functions.
ApiCall(op, body) ==
    /\ Len(apiCalls) < MaxCalls
    /\ LET st == ApiStart(op, body)
           id == Len(apiCalls) + 1
       IN  /\ apiCalls' = Append(apiCalls,
                 [op |-> op, body |-> body, transport |-> <<>>,
                  promise |-> st.promise])
           /\ netLog' = netLog \o
                 [j \in 1..Len(st.requests) |->
                     [call |-> id, request |-> st.requests[j]]]
    /\ UNCHANGED <<tableVars, pgVars, dashVars, fmtVars, errVars, sigVars>>

\* The request of call id settles; a timeout needs a request that has one.
ApiRespond(id, outcome) ==
    /\ id \in 1..Len(apiCalls)
    /\ apiCalls[id].promise.state = "pending"
    /\ outcome = "timeout" => ClientOf(apiCalls[id].op) = "apiClient"
    /\ apiCalls' = [apiCalls EXCEPT
          ![id].transport = <<outcome>>,
          ![id].promise = OpSettle(apiCalls[id].op, outcome, "data")]
    /\ UNCHANGED <<netLog, tableVars, pgVars, dashVars, fmtVars, errVars, sigVars>>

-----------------------------------------------------------------------------
(* Dashboard page                                                           *)

\* Bounds on the sizes of the response payloads.
MaxTrades == 2
MaxSignals == 2

DashOps == {"getTopSignals", "getTradeStats", "getTrades"}

\* Sequences over S of length at most n.
SeqUpTo(S, n) == UNION {[1..m -> S] : m \in 0..n}

\* A signal carries its score, here in hundredths.
Scores == {0, 100}
Signals == [score : Scores]

\* A trade as loadDashboardData sees it: its age in days at the time of the
\* load, (now - new Date(trade_date || '')) / 86400000, which is NaN
\* (length 0) for a missing or unparsable date and negative for a future
\* date; and its trade_type, of which the code only asks whether it is
\* 'Buy' ("Sell" stands for every other value, an absent one included).
DayDiffs == {<<>>, <<-1>>, <<7>>, <<30>>, <<31>>}
TradeTypes == {"Buy", "Sell"}
Trades == [daysDiff : DayDiffs, trade_type : TradeTypes]

NoData == [kind |-> "none"]

\* The response bodies the backend can return for each of the three calls.
Payloads(op) ==
    CASE op = "getTopSignals" ->
           {[kind |-> "signals", signals |-> ss] : ss \in SeqUpTo(Signals, MaxSignals)}
      [] op = "getTradeStats" -> {[kind |-> "stats", total_records |-> 1]}
      [] op = "getTrades" ->
           {[kind |-> "trades", trades |-> ts] : ts \in SeqUpTo(Trades, MaxTrades)}

\* `daysDiff <= n`; a comparison with NaN is false.
WithinDays(t, n) == t.daysDiff # <<>> /\ t.daysDiff[1] <= n

IsBuy(t) == t.trade_type = "Buy"

RECURSIVE SumScores(_)
SumScores(ss) == IF ss = <<>> THEN 0 ELSE ss[1].score + SumScores(Tail(ss))

\* A quotient a / b, kept exact as numerator and denominator.
Ratio(a, b) == [num |-> a, den |-> b]
Zero == [num |-> 0, den |-> 1]

\* calculatedStats, lines 61-86.
CalculatedStatsNoGuard(trades, signals) ==
    LET trades7d  == SelectSeq(trades, LAMBDA t : WithinDays(t, 7))
        trades30d == SelectSeq(trades, LAMBDA t : WithinDays(t, 30))
        buys7d    == Len(SelectSeq(trades7d, IsBuy))
        buys30d   == Len(SelectSeq(trades30d, IsBuy))
    IN  [total_trades_7d    |-> Len(trades7d),
         total_trades_30d   |-> Len(trades30d),
         buy_sell_ratio_7d  |-> Ratio(buys7d, Len(trades7d)),
         buy_sell_ratio_30d |-> Ratio(buys30d, Len(trades30d)),
         top_signals_count  |-> Len(signals),
         avg_signal_score   |-> Ratio(SumScores(signals), Len(signals))]
CalculatedStats(trades, signals) ==
    LET trades7d  == SelectSeq(trades, LAMBDA t : WithinDays(t, 7))
        trades30d == SelectSeq(trades, LAMBDA t : WithinDays(t, 30))
        buys7d    == Len(SelectSeq(trades7d, IsBuy))
        buys30d   == Len(SelectSeq(trades30d, IsBuy))
    IN  [total_trades_7d    |-> Len(trades7d),
         total_trades_30d   |-> Len(trades30d),
         buy_sell_ratio_7d  |-> IF Len(trades7d) > 0
                                THEN Ratio(buys7d, Len(trades7d)) ELSE Zero,
         buy_sell_ratio_30d |-> IF Len(trades30d) > 0
                                THEN Ratio(buys30d, Len(trades30d)) ELSE Zero,
         top_signals_count  |-> Len(signals),
         avg_signal_score   |-> IF Len(signals) > 0
                                THEN Ratio(SumScores(signals), Len(signals))
                                ELSE Zero]

\* Promise.all over the promises ps.
PromiseAll(ps) ==
    IF \E r \in DOMAIN ps : ps[r].state = "rejected" THEN "rejected"
    ELSE IF \A r \in DOMAIN ps : ps[r].state = "fulfilled" THEN "fulfilled"
    ELSE "pending"

\* What LoadingState renders.
LoadingStateIgnoresError(loading, error) ==
    IF loading THEN "loading" ELSE "children"
LoadingState(loading, error) ==
    IF loading THEN "loading"
    ELSE IF error # <<>> THEN "error"
    ELSE "children"

DashView == LoadingState(dLoading, dError)

\* A call of the batch that has not been made yet.
NotIssued == [state |-> "idle", value |-> <<>>, error |-> <<>>]

\* The mount effect: loadDashboardData up to its await.
LoadDashboardData ==
    /\ dPc = "mounted"
    /\ dLoading' = TRUE
    /\ dError' = <<>>
    /\ dReq' = [r \in DashOps |-> ApiStart(r, NoBody).promise]
    /\ dPc' = "awaiting"
    /\ UNCHANGED <<dSignals, dStats, dDashboardStats>>
    /\ UNCHANGED <<tableVars, pgVars, apiVars, fmtVars, errVars, sigVars>>

\* The rest of loadDashboardData after all three calls succeeded.
DashOnResolved(ps) ==
    LET signalsResponse == ps["getTopSignals"].value[1]
        statsResponse   == ps["getTradeStats"].value[1]
        recentTrades    == ps["getTrades"].value[1]
    IN  /\ dSignals' = signalsResponse.signals
        /\ dStats' = <<statsResponse>>
        /\ dDashboardStats' =
              <<CalculatedStats(recentTrades.trades, signalsResponse.signals)>>
        /\ dLoading' = FALSE
        /\ dPc' = "done"
        /\ UNCHANGED dError

\* catch and finally.
DashOnRejected ==
    /\ dError' = <<"Failed to load dashboard data. Please try again.">>
    /\ dLoading' = FALSE
    /\ dPc' = "done"
    /\ UNCHANGED <<dSignals, dStats, dDashboardStats>>

\* The request of call r settles and, in the same task, loadDashboardData
\* resumes if Promise.all settled by it.
DashRespond(r, outcome, data) ==
    /\ dReq[r].state = "pending"
    /\ LET ps == [dReq EXCEPT ![r] = OpSettle(r, outcome, data)]
       IN  /\ dReq' = ps
           /\ IF dPc = "awaiting" /\ PromiseAll(ps) = "rejected"
                THEN DashOnRejected
              ELSE IF dPc = "awaiting" /\ PromiseAll(ps) = "fulfilled"
                THEN DashOnResolved(ps)
              ELSE UNCHANGED <<dSignals, dStats, dDashboardStats, dLoading,
                               dError, dPc>>
    /\ UNCHANGED <<tableVars, pgVars, apiVars, fmtVars, errVars, sigVars>>

-----------------------------------------------------------------------------
(* Signals page                                                             *)

\* Bound on the number of getTopSignals calls the page makes in one behaviour.
MaxSigRequests == 3

\* <option value={7}>, <option value={30}>, <option value={90}>
WindowOptions == {7, 30, 90}

\* The lists of signals a response can carry; a signal is known by its ticker.
SigLists == {<<>>, <<[ticker |-> "AAPL"]>>, <<[ticker |-> "MSFT"]>>}
SigPayloads == {[kind |-> "signals", signals |-> l] : l \in SigLists}

\* How a getTopSignals request of the page can end.
SigOutcomes == {"ok", "timeout", "http_plain"}

SigView == LoadingState(sLoading, sError)

\* The calls whose promise has not settled yet.
SigInFlight == {i \in 1..Len(sReqs) : sReqs[i].promise.state = "pending"}

\* loadSignals up to its await, for the windowDays of the render it closes
\* over: setLoading(true), setError(null), and the call of getTopSignals.
LoadSignals(w) ==
    /\ Len(sReqs) < MaxSigRequests
    /\ sLoading' = TRUE
    /\ sError' = <<>>
    /\ sReqs' = Append(sReqs,
                   [window |-> w,
                    promise |-> ApiStart("getTopSignals", NoBody).promise])
    /\ UNCHANGED sSignals

\* The effect of the first render.
SigMount ==
    /\ sPc = "mounted"
    /\ sPc' = "running"
    /\ LoadSignals(sWindowDays)
    /\ UNCHANGED sWindowDays
    /\ UNCHANGED <<tableVars, pgVars, apiVars, dashVars, fmtVars, errVars>>

\* onChange of the time window select (rendered outside LoadingState, so in
\* every view): setWindowDays(w), and the effect on [windowDays] of the
\* render that follows.
SigChangeWindow(w) ==
    /\ sPc = "running"
    /\ w # sWindowDays
    /\ sWindowDays' = w
    /\ LoadSignals(w)
    /\ UNCHANGED sPc
    /\ UNCHANGED <<tableVars, pgVars, apiVars, dashVars, fmtVars, errVars>>

\* onClick={loadSignals} of "Refresh Signals", which is rendered inside
\* LoadingState and only when the list shown is not empty (the confidence
\* filter, which can only hide the button, is left at 'all').
SigRefresh ==
    /\ sPc = "running"
    /\ SigView = "children"
    /\ Len(sSignals) > 0
    /\ LoadSignals(sWindowDays)
    /\ UNCHANGED <<sWindowDays, sPc>>
    /\ UNCHANGED <<tableVars, pgVars, apiVars, dashVars, fmtVars, errVars>>

\* setSignals(response.signals)
SignalsOnResolveAppends(held, list) == held \o list
SignalsOnResolve(held, list) == list

\* finally { setLoading(false) }
SigFinallyKeeps(loading) == loading
SigFinally(loading) == FALSE

\* The request of call i settles and the loadSignals that made it resumes.
SigRespond(i, outcome, data) ==
    /\ i \in SigInFlight
    /\ LET p == OpSettle("getTopSignals", outcome, data)
       IN  /\ sReqs' = [sReqs EXCEPT ![i].promise = p]
           /\ IF p.state = "fulfilled"
                THEN /\ sSignals' = SignalsOnResolve(sSignals, p.value[1].signals)
                     /\ UNCHANGED sError
                ELSE /\ sError' = <<"Failed to load signals. Please try again.">>
                     /\ UNCHANGED sSignals
           /\ sLoading' = SigFinally(sLoading)
    /\ UNCHANGED <<sWindowDays, sPc>>
    /\ UNCHANGED <<tableVars, pgVars, apiVars, dashVars, fmtVars, errVars>>

-----------------------------------------------------------------------------
(* Formatting utilities                                                     *)

\* Bound on the number of formatter calls in one behaviour.
MaxFormats == 2

\* An argument of a formatter.  kind is "null", "undefined", "NaN",
\* "Infinity", "finite" or "string"; a finite number is (-1)^neg * n * 10^e
\* with 0 <= n < 10^9 (a decimal mantissa and exponent, so that values from
\* 0.4 to 2e30 fit the model's integers); text is the content of a string.
Val(kind, neg, n, e, text) ==
    [kind |-> kind, neg |-> neg, n |-> n, e |-> e, text |-> text]
Null == Val("null", FALSE, 0, 0, "")
Undefined == Val("undefined", FALSE, 0, 0, "")
NaN == Val("NaN", FALSE, 0, 0, "")
Infinity(neg) == Val("Infinity", neg, 0, 0, "")
Finite(neg, n, e) == Val("finite", neg, n, e, "")
Str(text) == Val("string", FALSE, 0, 0, text)

\* The numbers the formatters are applied to.  The finite ones are chosen so
\* that the IEEE double quotient value / 10^k rounds as its exact decimal
\* value does: no decimal tie except those a double holds exactly (x.5 for 0
\* decimals, x.25 for 1 decimal).
NonNumbers == {Null, Undefined, NaN, Infinity(FALSE), Infinity(TRUE)}
CurrencyMagnitudes ==
    { <<0, 0>>,        \* 0
      <<4, -1>>,       \* 0.4
      <<999, 0>>,      \* 999
      <<9995, -1>>,    \* 999.5
      <<1, 3>>,        \* 1000
      <<15, 2>>,       \* 1500
      <<9995, 2>>,     \* 999500
      <<1, 6>>,        \* 1000000
      <<125, 4>>,      \* 1250000
      <<25, 5>>,       \* 2500000
      <<99995, 4>>,    \* 999950000
      <<1, 9>>,        \* 1000000000
      <<3, 9>>,        \* 3000000000
      <<2, 30>> }      \* 2e30
CurrencyInputs ==
    NonNumbers \cup
    {Finite(neg, m[1], m[2]) : neg \in BOOLEAN, m \in CurrencyMagnitudes \ {<<0, 0>>}}
    \cup {Finite(FALSE, 0, 0)}
PercentInputs ==
    NonNumbers \cup
    {Finite(FALSE, 456, -3), Finite(TRUE, 25, -2), Finite(FALSE, 0, 0),
     Finite(FALSE, 1, 0)}
NumberInputs ==
    NonNumbers \cup
    {Finite(FALSE, 0, 0), Finite(FALSE, 999, 0), Finite(FALSE, 1234, 0),
     Finite(TRUE, 1234567, 0)}
\* The date strings: absent, empty, unparsable, and an ISO date.
DateInputs == {Null, Undefined, Str(""), Str("garbage"), Str("2024-01-15")}

RECURSIVE Pow10(_)
Pow10(k) == IF k = 0 THEN 1 ELSE 10 * Pow10(k - 1)

RECURSIVE NumDigits(_)
NumDigits(n) == IF n < 10 THEN 1 ELSE 1 + NumDigits(n \div 10)

\* The decimal digits of d, zero-padded on the left to width w.
RECURSIVE Pad(_, _)
Pad(d, w) == IF w = 0 THEN "" ELSE Pad(d \div 10, w - 1) \o ToString(d % 10)

\* Math.abs(value) >= 10^k
AbsGE(v, k) ==
    IF v.kind = "Infinity" THEN TRUE
    ELSE v.n > 0 /\ NumDigits(v.n) + v.e > k

\* value / 10^k and value * 10^k
Div10(v, k) == [v EXCEPT !.e = v.e - k]
Mul10(v, k) == [v EXCEPT !.e = v.e + k]

Sign(x) == IF x.neg THEN "-" ELSE ""

\* Number::toString of a number that is not finite or is at least 10^21.
RECURSIVE Mantissa(_)
Mantissa(n) == IF n % 10 = 0 THEN Mantissa(n \div 10) ELSE n
NumberToString(x) ==
    IF x.kind = "Infinity" THEN Sign(x) \o "Infinity"
    ELSE LET m == Mantissa(x.n)
             k == NumDigits(m)
         IN  Sign(x)
             \o ToString(m \div Pow10(k - 1))
             \o (IF k = 1 THEN ""
                 ELSE "." \o Pad(m % Pow10(k - 1), k - 1))
             \o "e+" \o ToString(x.e + NumDigits(x.n) - 1)

\* The digits of x rounded to f decimals, the tie going away from zero: the
\* integer m closest to |x| * 10^f, then its digits with the point inserted.
Scaled(x, f) ==
    LET s == x.e + f
    IN  IF s >= 0 THEN x.n * Pow10(s)
        ELSE IF -s > 9 THEN 0
        ELSE (2 * x.n + Pow10(-s)) \div (2 * Pow10(-s))
FixedNotation(x, f) ==
    IF x.e >= 0
    THEN Sign(x) \o ToString(x.n) \o (IF x.n = 0 THEN "" ELSE Pad(0, x.e))
         \o (IF f = 0 THEN "" ELSE "." \o Pad(0, f))
    ELSE LET m == Scaled(x, f)
         IN  Sign(x) \o ToString(m \div Pow10(f))
             \o (IF f = 0 THEN "" ELSE "." \o Pad(m % Pow10(f), f))

\* Number.prototype.toFixed(f)
ToFixed(x, f) ==
    IF x.kind = "Infinity" \/ AbsGE(x, 21)
    THEN NumberToString(x)
    ELSE FixedNotation(x, f)

\* value === null || value === undefined || isNaN(value)
NumberGuard(v) == v.kind \in {"null", "undefined", "NaN"}

FormatCurrency(v) ==
    IF NumberGuard(v) THEN "N/A"
    ELSE IF AbsGE(v, 9) THEN "$" \o ToFixed(Div10(v, 9), 1) \o "B"
    ELSE IF AbsGE(v, 6) THEN "$" \o ToFixed(Div10(v, 6), 1) \o "M"
    ELSE IF AbsGE(v, 3) THEN "$" \o ToFixed(Div10(v, 3), 0) \o "K"
    ELSE "$" \o ToFixed(v, 0)

FormatPercent(v) ==
    IF NumberGuard(v) THEN "N/A"
    ELSE ToFixed(Mul10(v, 2), 1) \o "%"

\* Number.prototype.toLocaleString() in the en-US locale, for an integer or
\* an infinity; the locale prints infinity as the sign U+221E.
RECURSIVE Grouped(_)
Grouped(n) ==
    IF n < 1000 THEN ToString(n)
    ELSE Grouped(n \div 1000) \o "," \o Pad(n % 1000, 3)
ToLocaleString(x) ==
    IF x.kind = "Infinity" THEN Sign(x) \o "(U+221E)"
    ELSE Sign(x) \o Grouped(x.n * Pow10(x.e))

FormatNumber(v) ==
    IF NumberGuard(v) THEN "N/A"
    ELSE ToLocaleString(v)

\* new Date(dateString).toLocaleDateString() in the en-US locale: the Date
\* constructor does not throw on a string it cannot parse, and the invalid
\* date prints as "Invalid Date".
Parsable(text) == text = "2024-01-15"
ToLocaleDateString(text) ==
    IF Parsable(text) THEN "1/15/2024" ELSE "Invalid Date"

\* !dateString
DateGuard(d) == d.kind \in {"null", "undefined"} \/ d.text = ""

FormatDate(d) ==
    IF DateGuard(d) THEN "N/A"
    ELSE ToLocaleDateString(d.text)

\* One call of a formatter; none of the four has a path that throws.
FmtCall(fn, arg, out) ==
    /\ Len(fmtLog) < MaxFormats
    /\ fmtLog' = Append(fmtLog,
                    [fn |-> fn, arg |-> arg, threw |-> FALSE, out |-> out])
    /\ UNCHANGED <<tableVars, pgVars, apiVars, dashVars, errVars, sigVars>>

CallFormatCurrency(v) == FmtCall("formatCurrency", v, FormatCurrency(v))
CallFormatPercent(v) == FmtCall("formatPercent", v, FormatPercent(v))
CallFormatNumber(v) == FmtCall("formatNumber", v, FormatNumber(v))
CallFormatDate(d) == FmtCall("formatDate", d, FormatDate(d))

-----------------------------------------------------------------------------
(* Properties of the Table                                                  *)

\* The click was made while both sortable flags were true.
ClickOnSortable(c) == c.tableSortable /\ c.colSortable = "true"

\* The sort event most recently emitted before click i (length 0: none).
LastEventBefore(i) ==
    LET js == {j \in 1..(i - 1) : Len(tClicks[j].emitted) = 1}
    IN  IF js = {} THEN <<>>
        ELSE tClicks[CHOOSE j \in js : \A m \in js : m <= j].emitted

\* C1: with both sortable flags true, a click on column c emits exactly one
\* event (c.key, d), where d is 'desc' if and only if the most recently
\* emitted event was (c.key, 'asc'), and 'asc' in every other case; whatever
\* the key of c.  In particular A, A, B emits (A,asc), (A,desc), (B,asc).
C1_SortToggle ==
    \A i \in 1..Len(tClicks) :
        LET c == tClicks[i]
        IN  ClickOnSortable(c) =>
              /\ Len(c.emitted) = 1
              /\ c.emitted[1].column = c.key
              /\ c.emitted[1].direction =
                    IF LastEventBefore(i) = <<[column |-> c.key, direction |-> "asc"]>>
                    THEN "desc" ELSE "asc"

\* C2: a header click made while the table-level flag is false, or the
\* column's flag is false or absent, emits no event and leaves (sortColumn,
\* sortDirection) unchanged; so the next click on the active sortable column
\* toggles its direction as if the no-op clicks had not happened.
C2_NoOpWhenNotSortable ==
    /\ \A i \in 1..Len(tClicks) :
          LET c == tClicks[i]
          IN  ~ClickOnSortable(c) => c.emitted = <<>> /\ c.post = c.pre
    /\ \A i \in 1..Len(tClicks) : \A j \in (i + 1)..Len(tClicks) :
          LET a == tClicks[i]
              b == tClicks[j]
          IN  ( /\ ClickOnSortable(a) /\ ClickOnSortable(b) /\ a.key = b.key
                /\ \A m \in (i + 1)..(j - 1) : ~ClickOnSortable(tClicks[m])
                /\ Len(a.emitted) = 1 /\ Len(b.emitted) = 1 )
              => b.emitted[1].direction # a.emitted[1].direction
    /\ tClicks # <<>> =>
          tClicks[Len(tClicks)].post = <<sortColumn, sortDirection>>

\* C2 witness: column A sorted ascending, then a no-op click on a column
\* that is not sortable, then a click on A that toggles to descending.
C2_Witness ==
    /\ Len(tClicks) = 3
    /\ tClicks[1].emitted = <<[column |-> "A", direction |-> "asc"]>>
    /\ ~ClickOnSortable(tClicks[2]) /\ tClicks[2].emitted = <<>>
    /\ tClicks[3].emitted = <<[column |-> "A", direction |-> "desc"]>>
    /\ sortColumn = "A" /\ sortDirection = "desc"

\* C16: with data = [] and loading = false the Table renders, for every
\* column list, the header row and exactly one body row, the placeholder cell
\* whose column span is the number of columns; a rendered body is never empty.
C16_EmptyDataPlaceholder ==
    /\ (~tLoading /\ Len(tData) = 0) =>
          /\ tView.kind = "table"
          /\ Len(tView.head) = Len(tColumns)
          /\ Len(tView.body) = 1
          /\ tView.body[1].kind = "placeholder"
          /\ tView.body[1].colSpan = Len(tColumns)
    /\ ~tLoading => Len(tView.body) >= 1
C16_Witness ==
    /\ ~tLoading /\ Len(tData) = 0 /\ Len(tColumns) = 3
    /\ tView.kind = "table"
    /\ \E i \in 1..Len(tClicks) : tClicks[i].emitted # <<>>

\* C17: while loading is true the Table renders no data row and no header
\* but one header bar and exactly 5 placeholder rows, whatever the length of
\* data; and no click made while loading emits a sort event.
C17_LoadingSkeleton ==
    /\ tLoading =>
          /\ tView.kind = "skeleton"
          /\ tView.bars = 1
          /\ tView.placeholders = 5
          /\ tView.head = <<>>
          /\ tView.body = <<>>
    /\ \A i \in 1..Len(tClicks) :
          tClicks[i].loading => tClicks[i].emitted = <<>>
C17_Witness ==
    /\ tLoading /\ Len(tData) = 0 /\ Len(tColumns) = 3 /\ tSortable
    /\ tView.kind = "skeleton"
    /\ \E i \in 1..Len(tClicks) : tClicks[i].emitted # <<>>

\* C18: when not loading and data is non-empty the Table renders one row per
\* element of data in the order of data, each with one cell per column in the
\* order of columns, in every sort state; and a header click leaves the
\* rendered rows as they were.
C18_NeverReorders ==
    /\ (~tLoading /\ Len(tData) > 0) =>
          /\ Len(tView.body) = Len(tData)
          /\ \A r \in 1..Len(tData) :
                /\ tView.body[r].kind = "row"
                /\ tView.body[r].row = tData[r]
                /\ Len(tView.body[r].cells) = Len(tColumns)
                /\ \A c \in 1..Len(tColumns) :
                      tView.body[r].cells[c] = <<tData[r], tColumns[c].key>>
    /\ \A i \in 1..Len(tClicks) : tClicks[i].rowsKept
C18_Witness ==
    /\ ~tLoading /\ tData = <<2, 1>> /\ Len(tColumns) = 3
    /\ Len(tView.body) = 2
    /\ sortDirection = "desc"
    /\ Len(tClicks) > 0
    /\ tClicks[Len(tClicks)].emitted # <<>>

\* The (column, direction) pairs whose arrow is rendered highlighted.
Highlighted ==
    {<<tView.head[h].key, "asc">> :
        h \in {x \in 1..Len(tView.head) : tView.head[x].up = "text-gray-900"}}
    \cup
    {<<tView.head[h].key, "desc">> :
        h \in {x \in 1..Len(tView.head) : tView.head[x].down = "text-gray-900"}}

\* C19: at most one arrow of one header is highlighted, and a highlighted
\* (column, direction) is that of the last event passed to onSort; so before
\* the first sort event no header is highlighted.
C19_SingleActiveColumn ==
    /\ Cardinality(Highlighted) <= 1
    /\ \A x \in Highlighted :
          LastEventBefore(Len(tClicks) + 1) =
              <<[column |-> x[1], direction |-> x[2]]>>

-----------------------------------------------------------------------------
(* Properties of Pagination                                                 *)

\* s .. s+4
Window(s) == [j \in 1..5 |-> s + j - 1]

\* C3: for totalPages > 5 and 3 < currentPage <= totalPages the numbered
\* buttons are the five consecutive pages starting at
\* min(currentPage - 2, totalPages - 4).
C3_CentredWindow ==
    (totalPages > 5 /\ 3 < currentPage /\ currentPage <= totalPages)
        => pgView.pages = Window(Min(currentPage - 2, totalPages - 4))

\* C4: at most 5 numbered buttons; 1..totalPages when totalPages <= 5,
\* whatever currentPage is, and 1..5 when totalPages > 5 and
\* currentPage <= 3.
C4_LeadingWindow ==
    /\ Len(pgView.pages) <= 5
    /\ totalPages <= 5 => pgView.pages = [j \in 1..totalPages |-> j]
    /\ (totalPages > 5 /\ currentPage <= 3) => pgView.pages = Window(1)

\* C4 witness: the caller went from page 4 back to page 3 of more than five
\* pages and the buttons are 1..5.
C4_Witness ==
    /\ totalPages > 5 /\ currentPage = 3
    /\ pgClick # <<>> /\ pgClick[1].emitted = <<3>>
    /\ pgClick[1].currentPage = 4
    /\ pgView.pages = <<1, 2, 3, 4, 5>>

\* C5: in both button pairs Previous is disabled exactly when
\* currentPage <= 1 and Next exactly when currentPage >= totalPages.
C5_BoundaryButtons ==
    /\ pgView.mobilePrev = (currentPage <= 1)
    /\ pgView.desktopPrev = (currentPage <= 1)
    /\ pgView.mobileNext = (currentPage >= totalPages)
    /\ pgView.desktopNext = (currentPage >= totalPages)
    /\ (1 < currentPage /\ currentPage < totalPages) =>
          /\ ~pgView.mobilePrev /\ ~pgView.mobileNext
          /\ ~pgView.desktopPrev /\ ~pgView.desktopNext

\* C5 witness: the caller arrived on page 1 of several by a click on
\* Previous; Previous is now disabled and Next enabled.
C5_Witness ==
    /\ currentPage = 1 /\ totalPages > 1
    /\ pgClick # <<>> /\ pgClick[1].button = "prev"
    /\ pgClick[1].emitted = <<1>>
    /\ pgView.mobilePrev /\ pgView.desktopPrev
    /\ ~pgView.mobileNext /\ ~pgView.desktopNext

\* C6: a click emits at most one event: Previous emits currentPage - 1 when
\* currentPage > 1 and nothing otherwise, Next emits currentPage + 1 when
\* currentPage < totalPages and nothing otherwise, and the numbered button
\* labelled p emits p, also when p is the current page.
C6_OneEventPerClick ==
    \A i \in 1..Len(pgClick) :
        LET c == pgClick[i]
        IN  /\ c.button = "prev" =>
                c.emitted = IF c.currentPage <= 1 THEN <<>>
                            ELSE <<c.currentPage - 1>>
            /\ c.button = "next" =>
                c.emitted = IF c.currentPage >= c.totalPages THEN <<>>
                            ELSE <<c.currentPage + 1>>
            /\ c.button = "page" => c.emitted = <<c.label>>

\* C6 witness: a click on the numbered button of the current page emitted
\* that page again.
C6_Witness ==
    /\ pgClick # <<>>
    /\ pgClick[1].button = "page"
    /\ pgClick[1].label = currentPage
    /\ pgClick[1].currentPage = currentPage
    /\ pgClick[1].emitted = <<currentPage>>

\* C20: when the caller adopts every emitted page and started with a
\* currentPage in 1..totalPages, currentPage stays in 1..totalPages and no
\* click on Previous, Next or a numbered button emits a page outside it.
C20_PageStaysInRange ==
    pgStart \in 1..totalPages =>
        /\ currentPage \in 1..totalPages
        /\ \A i \in 1..Len(pgClick) :
              \A e \in 1..Len(pgClick[i].emitted) :
                  pgClick[i].emitted[e] \in 1..totalPages
C20_Witness ==
    /\ pgStart \in 1..totalPages
    /\ totalPages > 5
    /\ pgStart <= 3
    /\ currentPage = totalPages
    /\ pgClick # <<>>
    /\ pgClick[1].button = "page"
    /\ pgClick[1].currentPage + 2 > totalPages
    /\ pgClick[1].emitted = <<currentPage>>

\* C21: the range text shows startItem = (currentPage - 1) * itemsPerPage + 1
\* and endItem = min(currentPage * itemsPerPage, totalItems); with no item
\* and currentPage = 1 that is 1 and 0, and with totalItems > 0, totalPages =
\* ceil(totalItems / itemsPerPage) and currentPage in 1..totalPages it is
\* 1 <= startItem <= endItem <= totalItems.
C21_RangeText ==
    /\ pgView.startItem = (currentPage - 1) * itemsPerPage + 1
    /\ (totalItems = 0 /\ currentPage = 1) =>
          (pgView.startItem = 1 /\ pgView.endItem = 0)
    /\ (/\ totalItems > 0
        /\ totalPages = CeilDiv(totalItems, itemsPerPage)
        /\ currentPage \in 1..totalPages) =>
          /\ 1 <= pgView.startItem
          /\ pgView.startItem <= pgView.endItem
          /\ pgView.endItem <= totalItems
C21_Witness ==
    /\ totalItems > 0
    /\ itemsPerPage > 1
    /\ totalItems % itemsPerPage # 0
    /\ currentPage = totalPages
    /\ totalPages > 1
    /\ pgView.endItem = totalItems
    /\ pgView.endItem < currentPage * itemsPerPage
    /\ pgClick # <<>>
    /\ pgClick[1].button = "next"
    /\ pgClick[1].emitted = <<currentPage>>

\* C28: for totalPages >= 1 and currentPage in 1..totalPages the numbered
\* buttons are exactly min(totalPages, 5), each page number lies in
\* 1..totalPages, and one of them is currentPage.
C28_ButtonsHoldCurrentPage ==
    (totalPages >= 1 /\ currentPage \in 1..totalPages) =>
        /\ Len(pgView.pages) = Min(totalPages, 5)
        /\ \A j \in 1..Len(pgView.pages) : pgView.pages[j] \in 1..totalPages
        /\ \E j \in 1..Len(pgView.pages) : pgView.pages[j] = currentPage
C28_Witness ==
    /\ totalPages > 5
    /\ currentPage = totalPages - 1
    /\ Len(pgView.pages) = 5
    /\ pgView.pages[3] = currentPage
    /\ pgClick # <<>>
    /\ pgClick[1].emitted = <<currentPage>>

-----------------------------------------------------------------------------
(* Properties of the API client                                             *)

RequestsOfCall(i) == {j \in 1..Len(netLog) : netLog[j].call = i}

EmptyScoreCall(c) == c.op = "scoreSignals" /\ c.body = "neither"

C9_NormalizedError ==
    \A i \in 1..Len(apiCalls) :
        apiCalls[i].promise.state = "rejected" =>
            apiCalls[i].promise.error[1].type = "APIError"

\* C10: when the request of an operation fails, the promise the operation
\* returned rejects; it is never fulfilled with a default or partial value.
C10_NeverSwallows ==
    \A i \in 1..Len(apiCalls) :
        LET c == apiCalls[i]
        IN  /\ (c.transport # <<>> /\ c.transport # <<"ok">>) =>
                  /\ c.promise.state = "rejected"
                  /\ c.promise.value = <<>>
                  /\ c.promise.error = <<AxiosError(c.transport[1])>>
            /\ c.promise.state = "fulfilled" => c.transport = <<"ok">>

\* C10 witness: getTrades whose request failed for lack of a network, and
\* whose promise rejected.
C10_Witness ==
    \E i \in 1..Len(apiCalls) :
        /\ apiCalls[i].op = "getTrades"
        /\ apiCalls[i].transport = <<"network">>
        /\ apiCalls[i].promise.state = "rejected"

\* C11: every call of an API function sends exactly one HTTP request, its
\* own, whether the request succeeds or fails: a failed request is not sent
\* again and a repeated call with the same arguments sends a new request.
C11_OneRequestPerCall ==
    /\ Len(netLog) = Len(apiCalls)
    /\ \A i \in 1..Len(apiCalls) :
          /\ Cardinality(RequestsOfCall(i)) = 1
          /\ \A j \in RequestsOfCall(i) :
                netLog[j].request = RequestOf(apiCalls[i].op, apiCalls[i].body)

\* C11 witness: two calls with the same arguments, the first of which has
\* failed, and two requests sent.
C11_Witness ==
    /\ Len(apiCalls) = 2 /\ Len(netLog) = 2
    /\ apiCalls[1].op = apiCalls[2].op /\ apiCalls[1].body = apiCalls[2].body
    /\ apiCalls[1].promise.state = "rejected"

\* C12: the 10000 ms timeout of the shared client applies to every request
\* of every operation, healthCheck included.
C12_TimeoutOnEveryRequest ==
    \A j \in 1..Len(netLog) : netLog[j].request.timeout = <<ApiTimeout>>

\* The detail field of the body of an error's response, if it has one.
DetailOf(error) == IF error.data = <<>> THEN <<>> ELSE error.data[1].detail

-----------------------------------------------------------------------------
(* Properties of the Dashboard                                              *)

\* C7: the three calls go out together; the data view is displayed only
\* when all three resolved; and once any of them has rejected the load has
\* ended in the error view with no signals, stats or KPI values stored.
C7_BatchFailFast ==
    /\ \A r \in DashOps : dReq[r].state = "idle" <=> dPc = "mounted"
    /\ DashView = "children" => \A r \in DashOps : dReq[r].state = "fulfilled"
    /\ (\E r \in DashOps : dReq[r].state = "rejected") =>
          /\ dPc = "done"
          /\ DashView = "error"
          /\ dSignals = <<>> /\ dStats = <<>> /\ dDashboardStats = <<>>

\* C7 witness: getTradeStats rejected, the other two resolved, and the
\* error view is displayed.
C7_Witness ==
    /\ dReq["getTradeStats"].state = "rejected"
    /\ dReq["getTopSignals"].state = "fulfilled"
    /\ dReq["getTrades"].state = "fulfilled"
    /\ dPc = "done"
    /\ DashView = "error"

-----------------------------------------------------------------------------
(* Properties of the formatting utilities                                   *)

NumericFormatters == {"formatCurrency", "formatPercent", "formatNumber"}

\* C13: for an absent (null, undefined) or non-finite (NaN, +Infinity,
\* -Infinity) number formatCurrency, formatPercent and formatNumber return
\* exactly "N/A", formatDate returns "N/A" for an absent or unparsable date
\* string, and no formatter throws; so none of these results is or contains
\* "NaN", "Infinity" or "Invalid Date".
C13_SentinelOnBadInput ==
    \A i \in 1..Len(fmtLog) :
        LET c == fmtLog[i]
        IN  /\ ~c.threw
            /\ (c.fn \in NumericFormatters /\ c.arg \in NonNumbers)
                  => c.out = "N/A"
            /\ (c.fn = "formatDate"
                /\ (c.arg.kind \in {"null", "undefined"}
                    \/ ~Parsable(c.arg.text)))
                  => c.out = "N/A"

\* C14: formatCurrency puts the minus sign of a negative value in front of
\* the dollar sign: formatCurrency(-3000000000) = "-$3.0B", and
\* formatCurrency(-v) is "-" followed by formatCurrency(v) for every
\* positive finite v whose formatted value is not zero.
C14_MinusBeforeDollar ==
    \A i \in 1..Len(fmtLog) :
        LET c == fmtLog[i]
            pos == [c.arg EXCEPT !.neg = FALSE]
        IN  (c.fn = "formatCurrency" /\ c.arg.kind = "finite" /\ c.arg.neg) =>
              /\ c.arg = Finite(TRUE, 3, 9) => c.out = "-$3.0B"
              /\ FormatCurrency(pos) # "$0" =>
                    c.out = "-" \o FormatCurrency(pos)

\* C15: for every finite v formatCurrency prints "$", then v / 1e9 with 1
\* decimal and "B" if |v| >= 1e9, else v / 1e6 with 1 decimal and "M" if
\* |v| >= 1e6, else v / 1e3 with 0 decimals and "K" if |v| >= 1e3, else v
\* with 0 decimals; 999 gives "$999", 1500 gives "$2K", 2500000 gives "$2.5M".
C15_BucketByMagnitude ==
    \A i \in 1..Len(fmtLog) :
        LET c == fmtLog[i]
            v == c.arg
        IN  (c.fn = "formatCurrency" /\ v.kind = "finite") =>
              /\ c.out =
                    IF AbsGE(v, 9)
                    THEN "$" \o FixedNotation(Div10(v, 9), 1) \o "B"
                    ELSE IF AbsGE(v, 6)
                    THEN "$" \o FixedNotation(Div10(v, 6), 1) \o "M"
                    ELSE IF AbsGE(v, 3)
                    THEN "$" \o FixedNotation(Div10(v, 3), 0) \o "K"
                    ELSE "$" \o FixedNotation(v, 0)
              /\ v = Finite(FALSE, 999, 0) => c.out = "$999"
              /\ v = Finite(FALSE, 15, 2) => c.out = "$2K"
              /\ v = Finite(FALSE, 25, 5) => c.out = "$2.5M"

\* The number toFixed(f) prints for x is below 1000 in absolute value.
PrintsBelowThousand(x, f) ==
    IF x.e >= 0 THEN ~AbsGE(x, 3)
    ELSE Scaled(x, f) < 1000 * Pow10(f)

\* C30: for every finite value the number formatCurrency prints is below 1000
\* in absolute value in every bucket; 999.5, 999500 and 999950000 do not
\* round up to "$1000", "$1000K" and "$1000.0M".
C30_NeverThousandInBucket ==
    \A i \in 1..Len(fmtLog) :
        LET c == fmtLog[i]
            v == c.arg
        IN  (c.fn = "formatCurrency" /\ v.kind = "finite") =>
              /\ IF AbsGE(v, 9) THEN PrintsBelowThousand(Div10(v, 9), 1)
                 ELSE IF AbsGE(v, 6) THEN PrintsBelowThousand(Div10(v, 6), 1)
                 ELSE IF AbsGE(v, 3) THEN PrintsBelowThousand(Div10(v, 3), 0)
                 ELSE PrintsBelowThousand(v, 0)
              /\ v = Finite(FALSE, 9995, -1) => c.out # "$1000"
              /\ v = Finite(FALSE, 9995, 2) => c.out # "$1000K"
              /\ v = Finite(FALSE, 99995, 4) => c.out # "$1000.0M"

\* The trades of a list that are at most n days old, and the buys among them.
InWindow(trades, n) ==
    {i \in 1..Len(trades) :
        trades[i].daysDiff # <<>> /\ trades[i].daysDiff[1] <= n}
BuysInWindow(trades, n) ==
    {i \in InWindow(trades, n) : trades[i].trade_type = "Buy"}

\* A quotient is the exact value b / n and lies in [0, 1], or is 0 for n = 0.
IsShareOf(q, b, n) ==
    /\ q.den > 0
    /\ 0 <= q.num /\ q.num <= q.den
    /\ IF n > 0 THEN q.num * n = b * q.den ELSE q.num = 0

\* C29: after a successful load, for the trades and signals fetched,
\* total_trades_7d <= total_trades_30d <= number of trades; each buy ratio is
\* buys / total of its window, in [0, 1], and 0 for an empty window; and
\* top_signals_count is the number of signals, avg_signal_score 0 for none.
C29_DerivedStats ==
    dDashboardStats # <<>> =>
        LET st == dDashboardStats[1]
            trades == dReq["getTrades"].value[1].trades
            signals == dReq["getTopSignals"].value[1].signals
        IN  /\ st.total_trades_7d <= st.total_trades_30d
            /\ st.total_trades_30d <= Len(trades)
            /\ st.total_trades_7d = Cardinality(InWindow(trades, 7))
            /\ st.total_trades_30d = Cardinality(InWindow(trades, 30))
            /\ IsShareOf(st.buy_sell_ratio_7d,
                         Cardinality(BuysInWindow(trades, 7)),
                         st.total_trades_7d)
            /\ IsShareOf(st.buy_sell_ratio_30d,
                         Cardinality(BuysInWindow(trades, 30)),
                         st.total_trades_30d)
            /\ st.top_signals_count = Len(signals)
            /\ st.avg_signal_score.den > 0
            /\ Len(signals) = 0 => st.avg_signal_score.num = 0
C29_Witness ==
    /\ dDashboardStats # <<>>
    /\ dPc = "done"
    /\ dReq["getTrades"].value[1].trades =
          <<[daysDiff |-> <<>>, trade_type |-> "Buy"],
            [daysDiff |-> <<-1>>, trade_type |-> "Sell"]>>
    /\ dReq["getTopSignals"].value[1].signals = <<>>
    /\ dDashboardStats[1].total_trades_7d = 1
    /\ dDashboardStats[1].buy_sell_ratio_7d.num = 0

-----------------------------------------------------------------------------
(* Properties of the Signals page                                           *)

\* C22: on the Signals page a getTopSignals request is never issued while an
\* earlier one is still pending: at most one request is in flight.
C22_OneRequestInFlight == Cardinality(SigInFlight) <= 1

\* Call i settles in this step, with the given state.
SigSettles(i, state) ==
    /\ sReqs[i].promise.state = "pending"
    /\ sReqs'[i].promise.state = state

\* C23: starting a re-fetch leaves the held signals unchanged; a request that
\* resolves replaces them as a whole by its response's list; a request that
\* rejects leaves them unchanged; and they change in no other step.
C23_AtomicReplace ==
    [][ /\ Len(sReqs') > Len(sReqs) => sSignals' = sSignals
        /\ \A i \in 1..Len(sReqs) :
              /\ SigSettles(i, "rejected") => sSignals' = sSignals
              /\ SigSettles(i, "fulfilled") =>
                    sSignals' = sReqs'[i].promise.value[1].signals
        /\ sSignals' # sSignals =>
              \E i \in 1..Len(sReqs) : SigSettles(i, "fulfilled") ]_vars
C23_Witness ==
    /\ Len(sReqs) = 3
    /\ sReqs[1].promise.state = "fulfilled"
    /\ sReqs[1].promise.value[1].signals = <<[ticker |-> "AAPL"]>>
    /\ sReqs[2].promise.state = "fulfilled"
    /\ sReqs[2].promise.value[1].signals = <<[ticker |-> "MSFT"]>>
    /\ sReqs[3].promise.state = "rejected"
    /\ sSignals = <<[ticker |-> "MSFT"]>>
    /\ sError # <<>>

\* C26: loading is true whenever at least one getTopSignals request of the
\* Signals page is still in flight.
C26_LoadingWhileInFlight == SigInFlight # {} => sLoading

\* C27: once no request of the Signals page is in flight, the most recently
\* issued request is the one made for the selected windowDays, the held
\* signals are those of its response if it resolved, and error is set if and
\* only if it failed.
C27_LatestRequestWins ==
    (SigInFlight = {} /\ Len(sReqs) > 0) =>
        LET last == sReqs[Len(sReqs)]
        IN  /\ last.window = sWindowDays
            /\ last.promise.state = "fulfilled" =>
                  sSignals = last.promise.value[1].signals
            /\ sError # <<>> <=> last.promise.state = "rejected"

\* What LoadingState must show for the state (loading, error).
ViewAgrees(view, loading, error) ==
    /\ loading => view = "loading"
    /\ ~loading => /\ view \in {"error", "children"}
                   /\ view = "error" <=> error # <<>>
                   /\ view = "children" <=> error = <<>>

\* C25: a load of the Dashboard or of the Signals page whose requests are
\* all answered reaches loading = false; the view is the loading indicator
\* whenever loading is true, and once loading is false it is the error view
\* if error is set and the data view if error is null, never both or neither.
C25_LoadEnds ==
    /\ [](/\ ViewAgrees(DashView, dLoading, dError)
          /\ ViewAgrees(SigView, sLoading, sError))
    /\ (dPc # "closed" /\ dLoading) ~> ~dLoading
    /\ (sPc # "closed" /\ sLoading) ~> ~sLoading
C25_Witness ==
    /\ sPc = "running"
    /\ Len(sReqs) >= 2
    /\ SigInFlight = {}
    /\ ~sLoading
    /\ sError # <<>>
    /\ SigView = "error"

-----------------------------------------------------------------------------
(* Specifications                                                           *)
(*                                                                          *)
(* Every start state is the state after construction: the Table mounted     *)
(* with useState('') / useState('asc') and no click yet, Pagination         *)
(* rendered once from its props, no API call made, the Dashboard mounted    *)
(* with loading = true and its effect not yet run.  A specification draws   *)
(* the props of the component it exercises from the bounded sets and gives  *)
(* the other components fixed props.                                        *)

\* The Table under every choice of its sortable flags.
InitTable ==
    /\ tSortable \in BOOLEAN
    /\ tColumns \in ColumnLists
    /\ tData \in DataSets
    /\ tLoading \in BOOLEAN
    /\ tView = TableRender(tColumns, tData, tLoading, tSortable, "", "asc")
    /\ sortColumn = ""
    /\ sortDirection = "asc"
    /\ tClicks = <<>>
    /\ totalItems = 1
    /\ itemsPerPage = 1
    /\ totalPages = 1
    /\ currentPage = 1
    /\ pgView = PgRender(currentPage, totalPages, totalItems, itemsPerPage)
    /\ pgClick = <<>>
    /\ pgStart = currentPage
    /\ apiCalls = <<>>
    /\ netLog = <<>>
    /\ dSignals = <<>>
    /\ dStats = <<>>
    /\ dDashboardStats = <<>>
    /\ dLoading = TRUE
    /\ dError = <<>>
    /\ dPc = "mounted"
    /\ dReq = [r \in DashOps |-> NotIssued]
    /\ fmtLog = <<>>
    /\ errLog = <<>>
    /\ sSignals = <<>>
    /\ sLoading = TRUE
    /\ sError = <<>>
    /\ sWindowDays = 30
    /\ sReqs = <<>>
    /\ sPc = "mounted"

NextTable ==
    \/ \E k \in Keys : HandleSort(k)
    \/ TableSetSortable
    \/ TableSetLoading
    \/ \E d \in DataSets : TableSetData(d)

SpecTable == InitTable /\ [][NextTable]_vars

\* Pagination under every choice of its props.  The caller computes
\* totalPages from the item count; the page it holds may be stale (0, or one
\* past the last page after the data shrank), which the component does not
\* validate.
InitPagination ==
    /\ tSortable = TRUE
    /\ tColumns = <<Col("A", "true")>>
    /\ tData = <<>>
    /\ tLoading = FALSE
    /\ tView = TableRender(tColumns, tData, tLoading, tSortable, "", "asc")
    /\ sortColumn = ""
    /\ sortDirection = "asc"
    /\ tClicks = <<>>
    /\ totalItems \in 0..MaxItems
    /\ itemsPerPage \in 1..MaxPerPage
    /\ totalPages = CeilDiv(totalItems, itemsPerPage)
    /\ currentPage \in 0..(totalPages + 1)
    /\ pgView = PgRender(currentPage, totalPages, totalItems, itemsPerPage)
    /\ pgClick = <<>>
    /\ pgStart = currentPage
    /\ apiCalls = <<>>
    /\ netLog = <<>>
    /\ dSignals = <<>>
    /\ dStats = <<>>
    /\ dDashboardStats = <<>>
    /\ dLoading = TRUE
    /\ dError = <<>>
    /\ dPc = "mounted"
    /\ dReq = [r \in DashOps |-> NotIssued]
    /\ fmtLog = <<>>
    /\ errLog = <<>>
    /\ sSignals = <<>>
    /\ sLoading = TRUE
    /\ sError = <<>>
    /\ sWindowDays = 30
    /\ sReqs = <<>>
    /\ sPc = "mounted"

NextPagination ==
    \/ \E l \in Layouts : ClickPrevious(l)
    \/ \E l \in Layouts : ClickNext(l)
    \/ \E j \in 1..5 : ClickPage(j)
    \/ AdoptPage

SpecPagination == InitPagination /\ [][NextPagination]_vars

\* The API client called by an arbitrary caller.
InitApi ==
    /\ tSortable = TRUE
    /\ tColumns = <<Col("A", "true")>>
    /\ tData = <<>>
    /\ tLoading = FALSE
    /\ tView = TableRender(tColumns, tData, tLoading, tSortable, "", "asc")
    /\ sortColumn = ""
    /\ sortDirection = "asc"
    /\ tClicks = <<>>
    /\ totalItems = 1
    /\ itemsPerPage = 1
    /\ totalPages = 1
    /\ currentPage = 1
    /\ pgView = PgRender(currentPage, totalPages, totalItems, itemsPerPage)
    /\ pgClick = <<>>
    /\ pgStart = currentPage
    /\ apiCalls = <<>>
    /\ netLog = <<>>
    /\ dSignals = <<>>
    /\ dStats = <<>>
    /\ dDashboardStats = <<>>
    /\ dLoading = TRUE
    /\ dError = <<>>
    /\ dPc = "mounted"
    /\ dReq = [r \in DashOps |-> NotIssued]
    /\ fmtLog = <<>>
    /\ errLog = <<>>
    /\ sSignals = <<>>
    /\ sLoading = TRUE
    /\ sError = <<>>
    /\ sWindowDays = 30
    /\ sReqs = <<>>
    /\ sPc = "mounted"

NextApi ==
    \/ \E op \in ApiOps : \E body \in BodiesOf(op) : ApiCall(op, body)
    \/ \E id \in 1..MaxCalls : \E o \in Outcomes : ApiRespond(id, o)

SpecApi == InitApi /\ [][NextApi]_vars

\* One mount of the Dashboard page.
InitDashboard ==
    /\ tSortable = TRUE
    /\ tColumns = <<Col("A", "true")>>
    /\ tData = <<>>
    /\ tLoading = FALSE
    /\ tView = TableRender(tColumns, tData, tLoading, tSortable, "", "asc")
    /\ sortColumn = ""
    /\ sortDirection = "asc"
    /\ tClicks = <<>>
    /\ totalItems = 1
    /\ itemsPerPage = 1
    /\ totalPages = 1
    /\ currentPage = 1
    /\ pgView = PgRender(currentPage, totalPages, totalItems, itemsPerPage)
    /\ pgClick = <<>>
    /\ pgStart = currentPage
    /\ apiCalls = <<>>
    /\ netLog = <<>>
    /\ dSignals = <<>>
    /\ dStats = <<>>
    /\ dDashboardStats = <<>>
    /\ dLoading = TRUE
    /\ dError = <<>>
    /\ dPc = "mounted"
    /\ dReq = [r \in DashOps |-> NotIssued]
    /\ fmtLog = <<>>
    /\ errLog = <<>>
    /\ sSignals = <<>>
    /\ sLoading = TRUE
    /\ sError = <<>>
    /\ sWindowDays = 30
    /\ sReqs = <<>>
    /\ sPc = "mounted"

NextDashboard ==
    \/ LoadDashboardData
    \/ \E r \in DashOps : \E data \in Payloads(r) : DashRespond(r, "ok", data)
    \/ \E r \in DashOps : \E o \in Outcomes \ {"ok"} : DashRespond(r, o, NoData)

SpecDashboard == InitDashboard /\ [][NextDashboard]_vars


\* The formatters applied by an arbitrary caller.
InitFormat ==
    /\ tSortable = TRUE
    /\ tColumns = <<Col("A", "true")>>
    /\ tData = <<>>
    /\ tLoading = FALSE
    /\ tView = TableRender(tColumns, tData, tLoading, tSortable, "", "asc")
    /\ sortColumn = ""
    /\ sortDirection = "asc"
    /\ tClicks = <<>>
    /\ totalItems = 1
    /\ itemsPerPage = 1
    /\ totalPages = 1
    /\ currentPage = 1
    /\ pgView = PgRender(currentPage, totalPages, totalItems, itemsPerPage)
    /\ pgClick = <<>>
    /\ pgStart = currentPage
    /\ apiCalls = <<>>
    /\ netLog = <<>>
    /\ dSignals = <<>>
    /\ dStats = <<>>
    /\ dDashboardStats = <<>>
    /\ dLoading = TRUE
    /\ dError = <<>>
    /\ dPc = "mounted"
    /\ dReq = [r \in DashOps |-> NotIssued]
    /\ fmtLog = <<>>
    /\ errLog = <<>>
    /\ sSignals = <<>>
    /\ sLoading = TRUE
    /\ sError = <<>>
    /\ sWindowDays = 30
    /\ sReqs = <<>>
    /\ sPc = "mounted"

NextFormat ==
    \/ \E v \in CurrencyInputs : CallFormatCurrency(v)
    \/ \E v \in PercentInputs : CallFormatPercent(v)
    \/ \E v \in NumberInputs : CallFormatNumber(v)
    \/ \E d \in DateInputs : CallFormatDate(d)

SpecFormat == InitFormat /\ [][NextFormat]_vars


\* handleAPIError applied by an arbitrary caller.
InitErrors ==
    /\ tSortable = TRUE
    /\ tColumns = <<Col("A", "true")>>
    /\ tData = <<>>
    /\ tLoading = FALSE
    /\ tView = TableRender(tColumns, tData, tLoading, tSortable, "", "asc")
    /\ sortColumn = ""
    /\ sortDirection = "asc"
    /\ tClicks = <<>>
    /\ totalItems = 1
    /\ itemsPerPage = 1
    /\ totalPages = 1
    /\ currentPage = 1
    /\ pgView = PgRender(currentPage, totalPages, totalItems, itemsPerPage)
    /\ pgClick = <<>>
    /\ pgStart = currentPage
    /\ apiCalls = <<>>
    /\ netLog = <<>>
    /\ dSignals = <<>>
    /\ dStats = <<>>
    /\ dDashboardStats = <<>>
    /\ dLoading = TRUE
    /\ dError = <<>>
    /\ dPc = "mounted"
    /\ dReq = [r \in DashOps |-> NotIssued]
    /\ fmtLog = <<>>
    /\ errLog = <<>>
    /\ sSignals = <<>>
    /\ sLoading = TRUE
    /\ sError = <<>>
    /\ sWindowDays = 30
    /\ sReqs = <<>>
    /\ sPc = "mounted"

NextErrors ==
    \/ \E e \in ErrorInputs : CallHandleAPIError(e)

SpecErrors == InitErrors /\ [][NextErrors]_vars

\* The Signals page under its user and the backend.
InitSignals ==
    /\ tSortable = TRUE
    /\ tColumns = <<Col("A", "true")>>
    /\ tData = <<>>
    /\ tLoading = FALSE
    /\ tView = TableRender(tColumns, tData, tLoading, tSortable, "", "asc")
    /\ sortColumn = ""
    /\ sortDirection = "asc"
    /\ tClicks = <<>>
    /\ totalItems = 1
    /\ itemsPerPage = 1
    /\ totalPages = 1
    /\ currentPage = 1
    /\ pgView = PgRender(currentPage, totalPages, totalItems, itemsPerPage)
    /\ pgClick = <<>>
    /\ pgStart = currentPage
    /\ apiCalls = <<>>
    /\ netLog = <<>>
    /\ dSignals = <<>>
    /\ dStats = <<>>
    /\ dDashboardStats = <<>>
    /\ dLoading = TRUE
    /\ dError = <<>>
    /\ dPc = "mounted"
    /\ dReq = [r \in DashOps |-> NotIssued]
    /\ fmtLog = <<>>
    /\ errLog = <<>>
    /\ sSignals = <<>>
    /\ sLoading = TRUE
    /\ sError = <<>>
    /\ sWindowDays = 30
    /\ sReqs = <<>>
    /\ sPc = "mounted"

NextSignals ==
    \/ SigMount
    \/ \E w \in WindowOptions : SigChangeWindow(w)
    \/ SigRefresh
    \/ \E i \in 1..MaxSigRequests : \E o \in SigOutcomes \ {"ok"} :
          SigRespond(i, o, NoData)
    \/ \E i \in 1..MaxSigRequests : \E data \in SigPayloads :
          SigRespond(i, "ok", data)

SpecSignals == InitSignals /\ [][NextSignals]_vars

\* One of the two pages is open (the other is "closed" and takes no step),
\* and every request made is answered: the mount effects run, and each
\* pending request eventually resolves or rejects.
InitPagesLive ==
    /\ tSortable = TRUE
    /\ tColumns = <<Col("A", "true")>>
    /\ tData = <<>>
    /\ tLoading = FALSE
    /\ tView = TableRender(tColumns, tData, tLoading, tSortable, "", "asc")
    /\ sortColumn = ""
    /\ sortDirection = "asc"
    /\ tClicks = <<>>
    /\ totalItems = 1
    /\ itemsPerPage = 1
    /\ totalPages = 1
    /\ currentPage = 1
    /\ pgView = PgRender(currentPage, totalPages, totalItems, itemsPerPage)
    /\ pgClick = <<>>
    /\ pgStart = currentPage
    /\ apiCalls = <<>>
    /\ netLog = <<>>
    /\ dSignals = <<>>
    /\ dStats = <<>>
    /\ dDashboardStats = <<>>
    /\ dLoading = TRUE
    /\ dError = <<>>
    /\ dPc \in {"mounted", "closed"}
    /\ dReq = [r \in DashOps |-> NotIssued]
    /\ fmtLog = <<>>
    /\ errLog = <<>>
    /\ sSignals = <<>>
    /\ sLoading = TRUE
    /\ sError = <<>>
    /\ sWindowDays = 30
    /\ sReqs = <<>>
    /\ sPc = IF dPc = "closed" THEN "mounted" ELSE "closed"

\* Whether a load ends does not depend on what the response bodies hold, so
\* here each dashboard call is answered with one well-typed body.
LiveBodies(op) ==
    CASE op = "getTopSignals" -> {[kind |-> "signals", signals |-> <<>>]}
      [] op = "getTradeStats" -> {[kind |-> "stats", total_records |-> 1]}
      [] op = "getTrades"     -> {[kind |-> "trades", trades |-> <<>>]}

NextPagesLive ==
    \/ LoadDashboardData
    \/ \E r \in DashOps : \E data \in LiveBodies(r) : DashRespond(r, "ok", data)
    \/ \E r \in DashOps : \E o \in Outcomes \ {"ok"} : DashRespond(r, o, NoData)
    \/ SigMount
    \/ \E w \in WindowOptions : SigChangeWindow(w)
    \/ SigRefresh
    \/ \E i \in 1..MaxSigRequests : \E o \in SigOutcomes \ {"ok"} :
          SigRespond(i, o, NoData)
    \/ \E i \in 1..MaxSigRequests : \E data \in SigPayloads :
          SigRespond(i, "ok", data)

DashAnswer(r) ==
    \/ \E data \in LiveBodies(r) : DashRespond(r, "ok", data)
    \/ \E o \in Outcomes \ {"ok"} : DashRespond(r, o, NoData)

SigAnswer(i) ==
    \/ \E data \in SigPayloads : SigRespond(i, "ok", data)
    \/ \E o \in SigOutcomes \ {"ok"} : SigRespond(i, o, NoData)

SpecPagesLive ==
    /\ InitPagesLive
    /\ [][NextPagesLive]_vars
    /\ WF_vars(LoadDashboardData)
    /\ WF_vars(SigMount)
    /\ \A r \in DashOps : WF_vars(DashAnswer(r))
    /\ \A i \in 1..MaxSigRequests : WF_vars(SigAnswer(i))

=========================================================================
